---- MODULE Spec2Model ----
(***************************************************************************)
(* falcon.fold: foldr, foldl, foldbl, foldbr, foldt and foldp over a       *)
(* parameter list (src/falcon/fold.hpp).                                   *)
(*                                                                         *)
(* The library is a set of pure functions.  A call is modelled by the      *)
(* value it returns (the call tree, operand i being the leaf i), by the    *)
(* ordered list of invocations of f and of the folder it performs, each    *)
(* with the value category of the callee (rvalue = owned, lvalue =         *)
(* borrowed), and by the typed parameters that received an operand of      *)
(* another declared type.  The header has two bodies for foldr and foldl,  *)
(* selected by FALCON_HAS_FOLD_EXPRESSION; the build is the variable       *)
(* cxx17.  The order in which the arguments of one call are evaluated is   *)
(* the build's too: argOrder.  An instantiation that is ill-formed or that *)
(* never reaches a base overload yields the value Bottom and performs no   *)
(* call.                                                                   *)
(***************************************************************************)
EXTENDS Integers, Sequences, FiniteSets

VARIABLES cxx17, argOrder, op, n, fRvalue, folderKind, result, calls, mismatch

vars == <<cxx17, argOrder, op, n, fRvalue, folderKind, result, calls, mismatch>>

\* Largest operand count of a call.
MaxN == 14

\* Depth of nested impl instantiations after which a call is given up.
MaxDepth == 8

----------------------------------------------------------------------------
\* Values

Leaf(i) == [k |-> "x", i |-> i, a |-> <<>>]

Node(fn, args) == [k |-> fn, i |-> 0, a |-> args]

Bottom == [k |-> "bottom", i |-> 0, a |-> <<>>]

\* The declared type of the result of a call of f or of the folder.
ResultTy == 0

\* An evaluated expression: its value, its declared type, the invocations
\* its evaluation performed, and the mistyped parameter bindings it went
\* through.  Operand i is of a type of its own, i.
Operand(i) == [v |-> Leaf(i), ty |-> i, log |-> <<>>, mis |-> {}]

Operands(m) == [i \in 1..m |-> Operand(i)]

Ill == [v |-> Bottom, ty |-> ResultTy, log |-> <<>>, mis |-> {}]

TypesOf(args) == [j \in 1..Len(args) |-> args[j].ty]

\* The invocations performed by the arguments of one call expression, in
\* the order the build evaluates function arguments.
RECURSIVE ArgLogs(_)
ArgLogs(args) ==
  IF Len(args) = 0 THEN <<>>
  ELSE IF argOrder = "ltr" THEN Head(args).log \o ArgLogs(Tail(args))
  ELSE ArgLogs(Tail(args)) \o Head(args).log

\* fn(args...): the callee is used as an rvalue iff rv.
Invoke(fn, rv, args) ==
  IF \E j \in 1..Len(args) : args[j].v = Bottom THEN Ill
  ELSE [v   |-> Node(fn, [j \in 1..Len(args) |-> args[j].v]),
        ty  |-> ResultTy,
        log |-> ArgLogs(args)
                \o <<[fn |-> fn, rv |-> rv,
                      a |-> [j \in 1..Len(args) |-> args[j].v]]>>,
        mis |-> UNION {args[j].mis : j \in 1..Len(args)}]

\* A parameter declared `T e` bound to the argument e and passed on as
\* static_cast<T>(e).
StaticCast(T, e) ==
  [e EXCEPT !.ty = T,
            !.mis = IF e.ty = T THEN @ ELSE @ \cup {<<T, e.ty>>}]

StaticCasts(Ts, es) == [j \in 1..Len(Ts) |-> StaticCast(Ts[j], es[j])]

\* make_elems_t<m, Ts...>: the first m types of the list.
make_elems_t(m, Ts) == SubSeq(Ts, 1, m)

Min(x, y) == IF x < y THEN x ELSE y

----------------------------------------------------------------------------
\* FoldFn and the overloaded comma of the fold-expression build

foldfn0 == [has |-> FALSE, value |-> Ill]

foldfn1(x) == [has |-> TRUE, value |-> x]

FoldFnValue(w) == IF w.has THEN w.value ELSE Ill

\* CommaR with the operands of the call exchanged: w.fn(w.value, x).
CommaR_swapped(x, w) ==
  IF w.has THEN foldfn1(Invoke("f", FALSE, <<w.value, x>>))
  ELSE foldfn1(x)

\* operator,(T && x, FoldFn && w)
CommaR(x, w) ==
  IF w.has THEN foldfn1(Invoke("f", FALSE, <<x, w.value>>))
  ELSE foldfn1(x)

\* operator,(FoldFn && w, U && y)
CommaL(w, y) ==
  IF w.has THEN foldfn1(Invoke("f", FALSE, <<w.value, y>>))
  ELSE foldfn1(y)

\* (args , ... , init)
RECURSIVE RightFoldExpr(_, _)
RightFoldExpr(args, init) ==
  IF Len(args) = 0 THEN init
  ELSE CommaR(Head(args), RightFoldExpr(Tail(args), init))

\* (init , ... , args)
RECURSIVE LeftFoldExpr(_, _)
LeftFoldExpr(init, args) ==
  IF Len(args) = 0 THEN init
  ELSE CommaL(LeftFoldExpr(init, SubSeq(args, 1, Len(args) - 1)),
              args[Len(args)])

----------------------------------------------------------------------------
\* foldr

\* foldr_impl<list<Ts...>>::impl(f, args...) of the build without fold
\* expressions; fwd tells whether std::forward<Fn>(f) is an rvalue.
RECURSIVE foldr_impl(_, _, _, _)
foldr_impl(Ts, fwd, args, d) ==
  LET k == Len(Ts)
      N == Len(args)
  IN
  IF d = 0 THEN Ill
  ELSE IF k = 1 THEN
    IF N = 2 THEN
      Invoke("f", fwd, <<StaticCast(Ts[1], args[1]), args[2]>>)
    ELSE IF N = 3 THEN
      Invoke("f", fwd, <<StaticCast(Ts[1], args[1]),
                         Invoke("f", FALSE, <<args[2], args[3]>>)>>)
    ELSE Ill
  ELSE IF N < k \/ fwd THEN Ill
  ELSE
    LET e  == StaticCasts(Ts, args)
        us == SubSeq(args, k + 1, N)
        r  == foldr_impl(make_elems_t(Len(us) \div 2, TypesOf(us)),
                         FALSE, us, d - 1)
    IN IF r.v = Bottom THEN Ill
       ELSE foldr_impl(make_elems_t((1 + k) \div 2, Ts),
                       FALSE, e \o <<r>>, d - 1)

foldr(fwd, xs) ==
  LET m == Len(xs) IN
  IF m = 0 THEN Invoke("f", fwd, <<>>)
  ELSE IF m = 1 THEN xs[1]
  ELSE IF m = 2 THEN Invoke("f", fwd, xs)
  ELSE IF cxx17 THEN
    Invoke("f", fwd,
      <<xs[1],
        Invoke("f", FALSE,
          <<xs[2], FoldFnValue(RightFoldExpr(SubSeq(xs, 3, m), foldfn0))>>)>>)
  ELSE
    Invoke("f", fwd,
      <<xs[1],
        foldr_impl(make_elems_t((1 + (m - 2)) \div 2, TypesOf(Tail(xs))),
                   FALSE, Tail(xs), MaxDepth)>>)

----------------------------------------------------------------------------
\* foldl

\* foldl_impl_fe with the outer call made on f itself, not on
\* std::forward<Fn>(f).
foldl_impl_fe_borrowed(Ts, fwd, args) ==
  LET k == Len(Ts) IN
  IF Len(args) # k + 1 THEN Ill
  ELSE Invoke("f", FALSE,
         <<FoldFnValue(LeftFoldExpr(foldfn0, StaticCasts(Ts, args))),
           args[k + 1]>>)

\* foldl_impl<list<Ts...>>::impl(f, e..., y) of the fold-expression build.
foldl_impl_fe(Ts, fwd, args) ==
  LET k == Len(Ts) IN
  IF Len(args) # k + 1 THEN Ill
  ELSE Invoke("f", fwd,
         <<FoldFnValue(LeftFoldExpr(foldfn0, StaticCasts(Ts, args))),
           args[k + 1]>>)

\* foldl_impl<list<Ts...>>::impl(f, a, e..., args...) of the build without
\* fold expressions: the first argument is deduced, the types of the list
\* are those of the parameters that follow it.
RECURSIVE foldl_impl(_, _, _, _)
foldl_impl(Ts, fwd, args, d) ==
  LET k == Len(Ts)
      N == Len(args)
  IN
  IF d = 0 THEN Ill
  ELSE IF k = 1 THEN
    IF N = 2 THEN
      Invoke("f", fwd, <<args[1], StaticCast(Ts[1], args[2])>>)
    ELSE IF N = 3 THEN
      Invoke("f", fwd,
        <<Invoke("f", FALSE, <<args[1], StaticCast(Ts[1], args[2])>>),
          args[3]>>)
    ELSE IF N = 4 THEN
      Invoke("f", fwd,
        <<Invoke("f", FALSE,
            <<Invoke("f", FALSE, <<args[1], StaticCast(Ts[1], args[2])>>),
              args[3]>>),
          args[4]>>)
    ELSE Ill
  ELSE IF N < k + 1 THEN Ill
  ELSE
    LET a  == args[1]
        e  == StaticCasts(Ts, Tail(args))
        us == SubSeq(args, k + 2, N)
        r  == foldl_impl(make_elems_t(k \div 2, Ts),
                         FALSE, <<a>> \o e, d - 1)
    IN IF r.v = Bottom THEN Ill
       ELSE foldl_impl(make_elems_t(Len(us) \div 2, TypesOf(us)),
                       fwd, <<r>> \o us, d - 1)

foldl(fwd, xs) ==
  LET m == Len(xs) IN
  IF m = 0 THEN Invoke("f", fwd, <<>>)
  ELSE IF m = 1 THEN xs[1]
  ELSE IF m = 2 THEN Invoke("f", fwd, xs)
  ELSE IF cxx17 /\ ~fwd THEN
    FoldFnValue(LeftFoldExpr(foldfn1(Invoke("f", FALSE, <<xs[1], xs[2]>>)),
                             SubSeq(xs, 3, m)))
  ELSE IF cxx17 THEN
    foldl_impl_fe(make_elems_t((m - 2) + 1, TypesOf(xs)), fwd, xs)
  ELSE
    foldl_impl(make_elems_t((m - 2) \div 2 + 1, TypesOf(xs)),
               fwd, xs, MaxDepth)

----------------------------------------------------------------------------
\* foldbr

\* foldbr_impl<list<Ts...>>::impl(f, e..., args...)
RECURSIVE foldbr_impl(_, _, _, _)
foldbr_impl(Ts, fwd, args, d) ==
  LET k == Len(Ts)
      N == Len(args)
  IN
  IF d = 0 THEN Ill
  ELSE IF k = 0 THEN
    IF N = 1 THEN args[1] ELSE Ill
  ELSE IF k = 1 THEN
    IF N = 2 THEN
      Invoke("f", fwd, <<StaticCast(Ts[1], args[1]), args[2]>>)
    ELSE IF N = 3 THEN
      Invoke("f", fwd, <<StaticCast(Ts[1], args[1]),
                         Invoke("f", FALSE, <<args[2], args[3]>>)>>)
    ELSE Ill
  ELSE IF N < k THEN Ill
  ELSE
    LET e  == StaticCasts(Ts, args)
        us == SubSeq(args, k + 1, N)
    IN Invoke("f", fwd,
         <<foldbr_impl(make_elems_t(k \div 2, Ts), FALSE, e, d - 1),
           foldbr_impl(make_elems_t(Len(us) \div 2, TypesOf(us)),
                       FALSE, us, d - 1)>>)

\* foldbr with the extra operand of an odd count put in the first half.
foldbr_ceil(fwd, xs) ==
  LET m == Len(xs) IN
  IF m = 0 THEN Invoke("f", fwd, <<>>)
  ELSE IF m = 1 THEN xs[1]
  ELSE IF m = 2 THEN Invoke("f", fwd, xs)
  ELSE foldbr_impl(make_elems_t((3 + (m - 2)) \div 2, TypesOf(xs)),
                   fwd, xs, MaxDepth)

\* foldbr with the first half one type short: (1u+sizeof...(Ts))/2.
foldbr_short(fwd, xs) ==
  LET m == Len(xs) IN
  IF m = 0 THEN Invoke("f", fwd, <<>>)
  ELSE IF m = 1 THEN xs[1]
  ELSE IF m = 2 THEN Invoke("f", fwd, xs)
  ELSE foldbr_impl(make_elems_t((1 + (m - 2)) \div 2, TypesOf(xs)),
                   fwd, xs, MaxDepth)

foldbr(fwd, xs) ==
  LET m == Len(xs) IN
  IF m = 0 THEN Invoke("f", fwd, <<>>)
  ELSE IF m = 1 THEN xs[1]
  ELSE IF m = 2 THEN Invoke("f", fwd, xs)
  ELSE foldbr_impl(make_elems_t((2 + (m - 2)) \div 2, TypesOf(xs)),
                   fwd, xs, MaxDepth)

----------------------------------------------------------------------------
\* foldbl

\* foldbl_impl<list<Ts...>>::impl(f, e..., args...)
RECURSIVE foldbl_impl(_, _, _, _)
foldbl_impl(Ts, fwd, args, d) ==
  LET k == Len(Ts)
      N == Len(args)
  IN
  IF d = 0 THEN Ill
  ELSE IF k = 1 THEN
    IF N = 1 THEN StaticCast(Ts[1], args[1])
    ELSE IF N = 2 THEN
      Invoke("f", fwd, <<StaticCast(Ts[1], args[1]), args[2]>>)
    ELSE IF N = 3 THEN
      Invoke("f", fwd,
        <<Invoke("f", FALSE, <<StaticCast(Ts[1], args[1]), args[2]>>),
          args[3]>>)
    ELSE Ill
  ELSE IF N < k THEN Ill
  ELSE
    LET e  == StaticCasts(Ts, args)
        us == SubSeq(args, k + 1, N)
        l  == foldbl_impl(make_elems_t((k \div 2) + (k % 2), Ts),
                          FALSE, e, d - 1)
    IN IF l.v = Bottom THEN Ill
       ELSE Invoke("f", fwd,
              <<l,
                foldbl_impl(make_elems_t((Len(us) \div 2) + (Len(us) % 2),
                                         TypesOf(us)),
                            FALSE, us, d - 1)>>)

\* foldbl with the extra operand of an odd count left to the second half.
foldbl_floor(fwd, xs) ==
  LET m == Len(xs) IN
  IF m = 0 THEN Invoke("f", fwd, <<>>)
  ELSE IF m = 1 THEN xs[1]
  ELSE IF m = 2 THEN Invoke("f", fwd, xs)
  ELSE foldbl_impl(make_elems_t(((m - 2) \div 2) + 1, TypesOf(xs)),
                   fwd, xs, MaxDepth)

foldbl(fwd, xs) ==
  LET m == Len(xs) IN
  IF m = 0 THEN Invoke("f", fwd, <<>>)
  ELSE IF m = 1 THEN xs[1]
  ELSE IF m = 2 THEN Invoke("f", fwd, xs)
  ELSE foldbl_impl(make_elems_t(((m - 2) \div 2) + ((m - 2) % 2) + 1,
                            TypesOf(xs)),
                   fwd, xs, MaxDepth)

----------------------------------------------------------------------------
\* foldt

\* The loop of count_foldt_element: n doubles while n * 2 < count.
RECURSIVE count_foldt_loop(_, _)
count_foldt_loop(p, count) ==
  IF p * 2 < count THEN count_foldt_loop(p * 2, count) ELSE p

\* count_foldt_element with the loop running while n * 2 <= count.
count_foldt_element_le(count) ==
  LET p == count_foldt_loop(2, count)
  IN Min(IF p * 2 <= count THEN p * 2 ELSE p, count)

\* count_foldt_element without its loop: n stays 2.
count_foldt_element_noloop(count) == Min(2, count)

count_foldt_element(count) == Min(count_foldt_loop(2, count), count)

\* foldt_impl<list<Ts...>>::impl(f, e..., args...)
RECURSIVE foldt_impl(_, _, _, _)
foldt_impl(Ts, fwd, args, d) ==
  LET k == Len(Ts)
      N == Len(args)
  IN
  IF d = 0 THEN Ill
  ELSE IF k = 1 THEN
    IF N = 1 /\ ~fwd THEN StaticCast(Ts[1], args[1]) ELSE Ill
  ELSE IF N < k THEN Ill
  ELSE IF N = k THEN Invoke("f", fwd, StaticCasts(Ts, args))
  ELSE
    LET e  == StaticCasts(Ts, args)
        us == SubSeq(args, k + 1, N)
        l  == foldt_impl(make_elems_t(count_foldt_element(k), Ts),
                         FALSE, e, d - 1)
    IN IF l.v = Bottom THEN Ill
       ELSE Invoke("f", fwd,
              <<l,
                foldt_impl(make_elems_t(count_foldt_element(Len(us)),
                                        TypesOf(us)),
                           FALSE, us, d - 1)>>)

foldt(fwd, xs) ==
  LET m == Len(xs) IN
  IF m = 0 THEN Invoke("f", fwd, <<>>)
  ELSE IF m = 1 THEN xs[1]
  ELSE IF m = 2 THEN Invoke("f", fwd, xs)
  ELSE foldt_impl(make_elems_t(count_foldt_element((m - 2) + 2), TypesOf(xs)),
                  fwd, xs, MaxDepth)

----------------------------------------------------------------------------
\* foldp

\* The folder of foldi, which folds its arguments with foldt and the same
\* f, borrowed.
foldi_folder(es) == foldt(FALSE, es)

\* folder(e...): the folder is the caller's.  "opaque" is a folder about
\* which nothing is known but the arguments it is given; "foldt" is the
\* folder of foldi.
folder(fk, es) ==
  IF fk = "foldt" THEN foldi_folder(es)
  ELSE Invoke("folder", FALSE, es)

\* foldp_impl<list<Ts...>, Pow>::impl(folder, f, e..., args...)
RECURSIVE foldp_impl(_, _, _, _, _)
foldp_impl(Ts, Pow, fk, args, d) ==
  LET k == Len(Ts)
      N == Len(args)
  IN
  IF d = 0 \/ N < k THEN Ill
  ELSE IF N = k THEN folder(fk, StaticCasts(Ts, args))
  ELSE
    LET e  == StaticCasts(Ts, args)
        us == SubSeq(args, k + 1, N)
        c  == folder(fk, e)
    IN IF c.v = Bottom THEN Ill
       ELSE Invoke("f", FALSE,
              <<c,
                foldp_impl(make_elems_t(Min(Pow * 2, Len(us)), TypesOf(us)),
                           Pow * 2, fk, us, d - 1)>>)

\* foldp with two operands taking the general path: f(x, folder(y)).
foldp_pair_by_folder(fk, fwd, xs) ==
  LET m == Len(xs) IN
  IF m = 0 THEN Invoke("f", fwd, <<>>)
  ELSE IF m = 1 THEN xs[1]
  ELSE IF m = 2 THEN Invoke("f", fwd, <<xs[1], folder(fk, <<xs[2]>>)>>)
  ELSE Invoke("f", fwd,
         <<xs[1],
           foldp_impl(<<xs[2].ty, xs[3].ty>>, 2, fk, Tail(xs), MaxDepth)>>)

\* foldp with the first cluster counted as of power 1, not 2.
foldp_pow1(fk, fwd, xs) ==
  LET m == Len(xs) IN
  IF m = 0 THEN Invoke("f", fwd, <<>>)
  ELSE IF m = 1 THEN xs[1]
  ELSE IF m = 2 THEN Invoke("f", fwd, xs)
  ELSE Invoke("f", fwd,
         <<xs[1],
           foldp_impl(<<xs[2].ty, xs[3].ty>>, 1, fk, Tail(xs), MaxDepth)>>)

foldp(fk, fwd, xs) ==
  LET m == Len(xs) IN
  IF m = 0 THEN Invoke("f", fwd, <<>>)
  ELSE IF m = 1 THEN xs[1]
  ELSE IF m = 2 THEN Invoke("f", fwd, xs)
  ELSE Invoke("f", fwd,
         <<xs[1],
           foldp_impl(<<xs[2].ty, xs[3].ty>>, 2, fk, Tail(xs), MaxDepth)>>)

----------------------------------------------------------------------------
\* The state machine: every action is one call of the library.

Init ==
  /\ cxx17 \in BOOLEAN
  /\ argOrder \in {"ltr", "rtl"}
  /\ op = "none"
  /\ n = 0
  /\ fRvalue = FALSE
  /\ folderKind = "none"
  /\ result = Bottom
  /\ calls = <<>>
  /\ mismatch = {}

Return(name, m, rv, fk, r) ==
  /\ op' = name
  /\ n' = m
  /\ fRvalue' = rv
  /\ folderKind' = fk
  /\ result' = r.v
  /\ calls' = r.log
  /\ mismatch' = r.mis
  /\ UNCHANGED <<cxx17, argOrder>>

FoldR ==
  \E m \in 0..MaxN, rv \in BOOLEAN :
    Return("foldr", m, rv, "none", foldr(rv, Operands(m)))

FoldL ==
  \E m \in 0..MaxN, rv \in BOOLEAN :
    Return("foldl", m, rv, "none", foldl(rv, Operands(m)))

FoldBL ==
  \E m \in 0..MaxN, rv \in BOOLEAN :
    Return("foldbl", m, rv, "none", foldbl(rv, Operands(m)))

FoldBR ==
  \E m \in 0..MaxN, rv \in BOOLEAN :
    Return("foldbr", m, rv, "none", foldbr(rv, Operands(m)))

FoldT ==
  \E m \in 0..MaxN, rv \in BOOLEAN :
    Return("foldt", m, rv, "none", foldt(rv, Operands(m)))

FoldP ==
  \E m \in 0..MaxN, rv \in BOOLEAN, fk \in {"opaque", "foldt"} :
    Return("foldp", m, rv, fk, foldp(fk, rv, Operands(m)))

Next == FoldR \/ FoldL \/ FoldBL \/ FoldBR \/ FoldT \/ FoldP

Spec == Init /\ [][Next]_vars

----------------------------------------------------------------------------
\* The trees the contracts name, defined on ranges lo..hi of operands
\* without reference to the implementation.

F2(l, r) == Node("f", <<l, r>>)

RECURSIVE RightNested(_, _)
RightNested(lo, hi) ==
  IF lo = hi THEN Leaf(lo) ELSE F2(Leaf(lo), RightNested(lo + 1, hi))

RECURSIVE LeftNested(_, _)
LeftNested(lo, hi) ==
  IF lo = hi THEN Leaf(lo) ELSE F2(LeftNested(lo, hi - 1), Leaf(hi))

\* Halving with the first ceil(m/2) operands on the left.
RECURSIVE BalancedLeft(_, _)
BalancedLeft(lo, hi) ==
  LET m == hi - lo + 1
      h == (m + 1) \div 2
  IN IF m = 1 THEN Leaf(lo)
     ELSE IF m = 2 THEN F2(Leaf(lo), Leaf(hi))
     ELSE F2(BalancedLeft(lo, lo + h - 1), BalancedLeft(lo + h, hi))

\* Halving with the first floor(m/2) operands on the left.
RECURSIVE BalancedRight(_, _)
BalancedRight(lo, hi) ==
  LET m == hi - lo + 1
      h == m \div 2
  IN IF m = 1 THEN Leaf(lo)
     ELSE IF m = 2 THEN F2(Leaf(lo), Leaf(hi))
     ELSE F2(BalancedRight(lo, lo + h - 1), BalancedRight(lo + h, hi))

RECURSIVE LeafCount(_)
LeafCount(t) ==
  IF t.k = "x" THEN 1
  ELSE IF Len(t.a) = 0 THEN 0
  ELSE LeafCount(Head(t.a)) + LeafCount([t EXCEPT !.a = Tail(@)])

IsPow2(m) == \E x \in 0..m : 2 ^ x = m

----------------------------------------------------------------------------
\* C1: for every operand count n >= 2, foldr(f, x1..xn) returns the
\* strictly right-nested tree f(x1, f(x2, ... f(x(n-1), xn))), in the
\* fold-expression build and in the recursive-halving build alike.
C1_FoldrRightNested ==
  (op = "foldr" /\ n >= 2) => result = RightNested(1, n)

C1_Witness ==
  /\ op = "foldr" /\ ~cxx17 /\ n = 14
  /\ result = RightNested(1, 14)
  /\ Len(calls) = 13

\* C2: for every operand count n >= 2, foldl(f, x1..xn) returns the
\* strictly left-nested tree f(f(...f(f(x1, x2), x3)...), xn), in the
\* fold-expression build (lvalue and rvalue f) and in the recursive-halving
\* build alike.
C2_FoldlLeftNested ==
  (op = "foldl" /\ n >= 2) => result = LeftNested(1, n)

\* C3: for each of the six folds, no operand gives f() by one call of f,
\* one operand gives the operand itself without any call, and two operands
\* give f(x1, x2) by exactly one call of f; foldp calls the folder in none
\* of the three cases.
C3_BaseCases ==
  (op # "none" /\ n <= 2) =>
    /\ n = 0 => /\ result = Node("f", <<>>)
                /\ calls = <<[fn |-> "f", rv |-> fRvalue, a |-> <<>>]>>
    /\ n = 1 => /\ result = Leaf(1)
                /\ calls = <<>>
    /\ n = 2 => /\ result = F2(Leaf(1), Leaf(2))
                /\ calls = <<[fn |-> "f", rv |-> fRvalue,
                              a |-> <<Leaf(1), Leaf(2)>>]>>
    /\ \A j \in 1..Len(calls) : calls[j].fn # "folder"

C3_Witness ==
  /\ op = "foldp" /\ folderKind = "opaque" /\ n = 1
  /\ result = Leaf(1)
  /\ calls = <<>>

\* C4: for every n >= 2, foldbl(f, x1..xn) is the tree that on a range of
\* m operands is the operand itself for m = 1, f(a, b) for m = 2, and for
\* m >= 3 f of the tree of the first ceil(m/2) operands and the tree of the
\* remaining floor(m/2); seven operands give
\* f(f(f(1,2),f(3,4)),f(f(5,6),7)).
C4_FoldblTree ==
  (op = "foldbl" /\ n >= 2) =>
    /\ result = BalancedLeft(1, n)
    /\ n = 7 => result = F2(F2(F2(Leaf(1), Leaf(2)), F2(Leaf(3), Leaf(4))),
                            F2(F2(Leaf(5), Leaf(6)), Leaf(7)))

C4_Witness ==
  /\ op = "foldbl" /\ n = 7
  /\ LeafCount(result.a[1]) = 4
  /\ result.a[2] = F2(F2(Leaf(5), Leaf(6)), Leaf(7))

\* C5: for every n >= 2, foldbr(f, x1..xn) is the tree that on a range of
\* m operands is the operand itself for m = 1, f(a, b) for m = 2, and for
\* m >= 3 f of the tree of the first floor(m/2) operands and the tree of
\* the remaining ceil(m/2); seven operands give
\* f(f(1,f(2,3)),f(f(4,5),f(6,7))).
C5_FoldbrTree ==
  (op = "foldbr" /\ n >= 2) =>
    /\ result = BalancedRight(1, n)
    /\ n = 7 => result = F2(F2(Leaf(1), F2(Leaf(2), Leaf(3))),
                            F2(F2(Leaf(4), Leaf(5)), F2(Leaf(6), Leaf(7))))

C5_Witness ==
  /\ op = "foldbr" /\ n = 7
  /\ result.a[1] = F2(Leaf(1), F2(Leaf(2), Leaf(3)))
  /\ LeafCount(result.a[2]) = 4

\* The largest power of two strictly less than m (m >= 2).
Pow2Below(m) ==
  CHOOSE p \in 1..m : IsPow2(p) /\ p < m /\ m <= 2 * p

\* Splitting at the largest power of two strictly less than the count.
RECURSIVE NestedTree(_, _)
NestedTree(lo, hi) ==
  LET m == hi - lo + 1 IN
  IF m = 1 THEN Leaf(lo)
  ELSE IF m = 2 THEN F2(Leaf(lo), Leaf(hi))
  ELSE F2(NestedTree(lo, lo + Pow2Below(m) - 1),
          NestedTree(lo + Pow2Below(m), hi))

\* The perfect binary tree over a range whose size is a power of two.
RECURSIVE Perfect(_, _)
Perfect(lo, hi) ==
  LET m == hi - lo + 1 IN
  IF m = 1 THEN Leaf(lo)
  ELSE F2(Perfect(lo, lo + (m \div 2) - 1), Perfect(lo + (m \div 2), hi))

\* C6: for every n >= 2, foldt(f, x1..xn) is the tree that on a range of m
\* operands is the operand itself for m = 1, f(a, b) for m = 2, and for
\* m >= 3 f of the tree of the first p operands and the tree of the
\* remaining m - p, p being the largest power of two strictly less than m,
\* which is what count_foldt_element(m) returns; a power-of-two count gives
\* a perfect binary tree and five operands give f(f(f(1,2),f(3,4)),5).
C6_FoldtTree ==
  (op = "foldt" /\ n >= 2) =>
    /\ result = NestedTree(1, n)
    /\ \A m \in 3..n : count_foldt_element(m) = Pow2Below(m)
    /\ IsPow2(n) => result = Perfect(1, n)
    /\ n = 5 => result = F2(F2(F2(Leaf(1), Leaf(2)), F2(Leaf(3), Leaf(4))),
                            Leaf(5))

C6_Witness ==
  /\ op = "foldt" /\ n = 13
  /\ result.a[1] = Perfect(1, 8)
  /\ result.a[2] = F2(Perfect(9, 12), Leaf(13))

\* The clusters c1, c2, ... of the operands lo..hi as pairs <<first, last>>,
\* cluster j being of size min(2^j, operands remaining).
RECURSIVE Clusters(_, _, _)
Clusters(lo, hi, j) ==
  IF lo > hi THEN <<>>
  ELSE LET sz == Min(2 ^ j, hi - lo + 1)
       IN <<<<lo, lo + sz - 1>>>> \o Clusters(lo + sz, hi, j + 1)

Leaves(c) == [j \in 1..(c[2] - c[1] + 1) |-> Leaf(c[1] + j - 1)]

\* What the folder makes of a cluster.
Folded(fk, c) ==
  IF fk = "foldt" THEN NestedTree(c[1], c[2]) ELSE Node("folder", Leaves(c))

RECURSIVE ClusterChain(_, _)
ClusterChain(fk, cs) ==
  IF Len(cs) = 1 THEN Folded(fk, cs[1])
  ELSE F2(Folded(fk, Head(cs)), ClusterChain(fk, Tail(cs)))

\* The tree the test asserts for foldi(f, 1, ..., 13, 0), the fourteenth
\* operand being the leaf 14.
FoldiTestTree ==
  F2(Leaf(1),
     F2(F2(Leaf(2), Leaf(3)),
        F2(F2(F2(Leaf(4), Leaf(5)), F2(Leaf(6), Leaf(7))),
           F2(F2(F2(Leaf(8), Leaf(9)), F2(Leaf(10), Leaf(11))),
              F2(F2(Leaf(12), Leaf(13)), Leaf(14))))))

C8_OwnedCallIsRootAndLast ==
  (op # "none" /\ fRvalue /\ (n = 0 \/ n >= 2)) =>
    /\ Len(calls) >= 1
    /\ \A j \in 1..Len(calls) : calls[j].rv <=> j = Len(calls)
    /\ calls[Len(calls)].fn = "f"
    /\ calls[Len(calls)].a = result.a

OtherBias ==
  IF op = "foldbl" THEN foldbr(fRvalue, Operands(n)).v
  ELSE foldbl(fRvalue, Operands(n)).v

EvenSplit(t) ==
  /\ Len(t.a) = 2
  /\ LeafCount(t.a[1]) = n \div 2
  /\ LeafCount(t.a[2]) = n \div 2

\* C10 as the specification states it: the bias decides the shape for odd
\* operand counts only; for every even n >= 2, foldbl and foldbr produce
\* the same call tree, whose top-level split is n/2 and n/2.
C10_EvenCountsSameTree ==
  (op \in {"foldbl", "foldbr"} /\ n >= 2 /\ n % 2 = 0) =>
    /\ result = OtherBias
    /\ EvenSplit(result)

\* C10, amended: for every even n >= 2, foldbl and foldbr both split the
\* top level into n/2 and n/2 operands; the two call trees are the same
\* exactly when n is a power of two, and differ otherwise, the bias deciding
\* the shape of every range of odd size >= 3 the halving reaches (n = 6:
\* f(f(f(1,2),3),f(f(4,5),6)) against f(f(1,f(2,3)),f(4,f(5,6)))).
C10_EvenCountsSameTopSplit ==
  (op \in {"foldbl", "foldbr"} /\ n >= 2 /\ n % 2 = 0) =>
    /\ EvenSplit(result)
    /\ EvenSplit(OtherBias)
    /\ result = OtherBias <=> IsPow2(n)

C10_Witness ==
  /\ op = "foldbl" /\ n = 6
  /\ result = F2(F2(F2(Leaf(1), Leaf(2)), Leaf(3)),
                 F2(F2(Leaf(4), Leaf(5)), Leaf(6)))
  /\ OtherBias = F2(F2(Leaf(1), F2(Leaf(2), Leaf(3))),
                    F2(Leaf(4), F2(Leaf(5), Leaf(6))))

\* The nesting depth of the calls of a tree: 0 for an operand.
RECURSIVE Depth(_)
Depth(t) ==
  IF t.k = "x" THEN 0
  ELSE IF Len(t.a) = 0 THEN 1
  ELSE LET ds == {Depth(t.a[j]) : j \in 1..Len(t.a)}
       IN 1 + (CHOOSE x \in ds : \A y \in ds : y <= x)

\* The least e with m <= 2^e.
CeilLog2(m) == CHOOSE x \in 0..m : m <= 2 ^ x /\ (x = 0 \/ 2 ^ (x - 1) < m)

\* C11: foldt produces a most balanced binary tree: for every n >= 2 the
\* greatest nesting depth of the calls of f in foldt(f, x1..xn) is
\* ceil(log2(n)), the least depth a binary tree over n leaves can have (a
\* binary tree of depth d has at most 2^d leaves), and no call of f has a
\* single operand: every call has two, a leftover operand being passed
\* through.
C11_FoldtDepth ==
  (op = "foldt" /\ n >= 2) =>
    /\ Depth(result) = CeilLog2(n)
    /\ 2 ^ (Depth(result) - 1) < n /\ n <= 2 ^ Depth(result)
    /\ LeafCount(result) = n
    /\ \A j \in 1..Len(calls) : calls[j].fn = "f" /\ Len(calls[j].a) = 2

C11_Witness ==
  /\ op = "foldt" /\ n = 9
  /\ Depth(result) = 4
  /\ result.a[2] = Leaf(9)
  /\ Len(calls) = 8

\* The operands of a tree read from left to right.
RECURSIVE Fringe(_)
Fringe(t) ==
  IF t.k = "x" THEN <<t.i>>
  ELSE IF Len(t.a) = 0 THEN <<>>
  ELSE Fringe(t.a[1]) \o Fringe([t EXCEPT !.a = Tail(@)])

\* Every call of the tree has at least one sub-branch and none of its
\* sub-branches is empty.
RECURSIVE NoEmptyBranch(_)
NoEmptyBranch(t) ==
  \/ t.k = "x"
  \/ /\ t.k # "bottom"
     /\ Len(t.a) >= 1
     /\ \A j \in 1..Len(t.a) : NoEmptyBranch(t.a[j])

CountF == Cardinality({j \in 1..Len(calls) : calls[j].fn = "f"})

\* C12: for every strategy and every n >= 2 the sub-branches of every step
\* are contiguous, non-empty, pairwise disjoint sub-ranges that cover the
\* range of the step in the original order: every operand is a leaf exactly
\* once, the leaves read from left to right are x1..xn, and foldr, foldl,
\* foldbl, foldbr and foldt call f exactly n - 1 times.
C12_LeavesInOrder ==
  (op # "none" /\ n >= 2) =>
    /\ Fringe(result) = [i \in 1..n |-> i]
    /\ NoEmptyBranch(result)
    /\ (op # "foldp" => CountF = n - 1 /\ Len(calls) = n - 1)

\* C13: for every strategy, in both builds and for every n >= 0, the
\* recursive splitting ends in a base overload and the call produces a
\* result.
C13_Terminates ==
  op # "none" => result # Bottom

\* C14: for every strategy, in both builds and for every n >= 3, the type
\* prefix lines up with the arguments: every explicitly typed parameter of an
\* impl helper receives an operand of that very type, so no operand is
\* received under the type of a neighbour.
C14_PrefixLinesUp ==
  (op # "none" /\ n >= 3) => mismatch = {}

====
